---- MODULE Spec2Model ----
(***************************************************************************)
(* Authentication core of the expense-tracker backend: the users table,    *)
(* AuthService (create_user, authenticate_user, the two lookups), the       *)
(* refresh_tokens table and the refresh-token ledger operating on it.       *)
(*                                                                         *)
(* An optional value (a nullable column, a query's .first(), a returned     *)
(* User or None) is a set of at most one element: None is {}.               *)
(***************************************************************************)
EXTENDS Integers, FiniteSets, Sequences, TLC

\* ---------------------------------------------------------------- bounds
\* The clock runs to MaxTime under AuthService and to MaxLedgerTime under the
\* ledger.
MaxTime == 2
MaxLedgerTime == 1
MaxUserId == 3
MaxTokens == 2
MaxVersion == 1

\* ---------------------------------------------------------------- inputs
Usernames == {"alice", "Alice"}
\* Registration requests: a username, an email and a password; they cover the
\* same username and email twice, one username with two emails, one email with
\* two usernames, and two requests that differ in all three.
Registrations == {<<"alice", "a@x.com", 1>>, <<"alice", "A@x.com", 1>>,
                  <<"Alice", "a@x.com", 2>>}
Passwords == {1, 2}
Salts == {1}
UserIds == 1..MaxUserId
TokenIds == 1..MaxTokens
TTLs == {1}
Reasons == {"logout"}
Procs == {"r1", "r2"}

None == {}
Some(x) == {x}

VARIABLES
    users,          \* rows of table "users"
    next_user_id,   \* the autoincrement of users.user_id
    tokens,         \* rows of table "refresh_tokens"
    next_token_id,  \* the autoincrement of refresh_tokens.token_id
    issued_version, \* token_id -> the owner's token_version when it was issued
    now,            \* the clock read by datetime.utcnow()
    registered,     \* history: user_id -> the plaintext given at registration
    last,           \* the last call: its name, arguments and outcome
    procs           \* concurrent requests: each one's position and locals

vars == <<users, next_user_id, tokens, next_token_id, issued_version, now,
          registered, last, procs>>

\* ------------------------------------------------------- password hasher
\* A digest embeds its salt: digests lie above every plaintext, one block of
\* DigestStride values per salt.
DigestBase == 100
DigestStride == 10

get_password_hash(password, salt) == DigestBase + salt * DigestStride + password

\* Recomputes the digest with the salt the stored digest embeds; a value that
\* is no digest (below DigestBase) never verifies.
verify_password(password, digest) ==
    /\ digest >= DigestBase
    /\ LET salt == (digest - DigestBase) \div DigestStride
       IN  digest = get_password_hash(password, salt)

\* ------------------------------------------------------------ users table
\* A new row: token_version, is_active and last_login take the column defaults.
User(user_id, username, email, password) ==
    [user_id |-> user_id, username |-> username, email |-> email,
     password |-> password, token_version |-> 0, is_active |-> TRUE,
     last_login |-> None]

\* Query.first(): the possible results. With no ORDER BY the store may yield
\* any row of the result first; an empty result gives None.
first(rows) == IF rows = {} THEN {None} ELSE {Some(r) : r \in rows}

\* unique_ok with the UNIQUE constraints dropped from the table.
unique_ok_unconstrained(rows, username, email) == TRUE

\* The UNIQUE constraints on users.username and users.email, as the store
\* checks them when a row is inserted.
unique_ok(rows, username, email) ==
    \A u \in rows : u.username # username /\ u.email # email

\* The step just taken: the method, where its request stands after the step
\* ("idle" when the call has returned or raised), the arguments of the query
\* when the call ended at its query (a request that goes on keeps its
\* arguments in its locals), what the call returned or raised and, for an
\* authenticate_user that returned a user, the value it assigned to
\* last_login.
Call(op, pc, username, email, password, id, ret, raised) ==
    [op |-> op, pc |-> pc, username |-> username, email |-> email,
     password |-> password, id |-> id, ret |-> ret, raised |-> raised,
     stamp |-> 0]

\* A request's locals: the arguments, hashed_password, the loaded user's id,
\* the last_login the user was loaded with and the value assigned to it.
Idle == [pc |-> "idle", username |-> "", email |-> "", password |-> 0,
         hashed |-> 0, id |-> 0, loaded |-> {}, stamp |-> 0]

\* ------------------------------------------------------------ AuthService
\* Each request runs a method in a session of its own. A method's query is one
\* step against the store, authenticate_user's clock read a second, the
\* db.commit() a later one and create_user's db.refresh() one more; the steps
\* of other requests, a deactivation and the advancing clock may fall between
\* them.

\* register_query whose existence query forgets the email.
register_query_username_only(p, username, email, password, salt) ==
    /\ procs[p].pc = "idle"
    /\ \E existing_user \in first({u \in users : u.username = username}) :
          IF existing_user # None
          THEN /\ last' = Call("create_user", "idle", username, email, 0,
                               0, None, "ValueError")
               /\ UNCHANGED procs
          ELSE /\ procs' = [procs EXCEPT ![p] =
                      [Idle EXCEPT !.pc = "add", !.username = username,
                                   !.email = email, !.password = password,
                                   !.hashed = get_password_hash(password, salt)]]
               /\ last' = Call("create_user", "add", "", "", 0, 0, None, "")
    /\ UNCHANGED <<users, next_user_id, registered>>

\* register_query that keeps the password as given, unhashed.
register_query_plaintext(p, username, email, password, salt) ==
    /\ procs[p].pc = "idle"
    /\ \E existing_user \in first({u \in users :
                                     u.username = username \/ u.email = email}) :
          IF existing_user # None
          THEN /\ last' = Call("create_user", "idle", username, email, 0,
                               0, None, "ValueError")
               /\ UNCHANGED procs
          ELSE /\ procs' = [procs EXCEPT ![p] =
                      [Idle EXCEPT !.pc = "add", !.username = username,
                                   !.email = email, !.password = password,
                                   !.hashed = password]]
               /\ last' = Call("create_user", "add", "", "", 0, 0, None, "")
    /\ UNCHANGED <<users, next_user_id, registered>>

\* create_user up to db.add: the existence query, the raise, the hash and the
\* new row.
register_query(p, username, email, password, salt) ==
    /\ procs[p].pc = "idle"
    /\ \E existing_user \in first({u \in users :
                                     u.username = username \/ u.email = email}) :
          IF existing_user # None
          THEN /\ last' = Call("create_user", "idle", username, email, 0,
                               0, None, "ValueError")
               /\ UNCHANGED procs
          ELSE /\ procs' = [procs EXCEPT ![p] =
                      [Idle EXCEPT !.pc = "add", !.username = username,
                                   !.email = email, !.password = password,
                                   !.hashed = get_password_hash(password, salt)]]
               /\ last' = Call("create_user", "add", "", "", 0, 0, None, "")
    /\ UNCHANGED <<users, next_user_id, registered>>

\* create_user's db.commit(): the INSERT, which the store refuses when the row
\* breaks a UNIQUE constraint (the IntegrityError is not caught), and the end
\* of the transaction: from here on the row is there for every request.
register_commit(p) ==
    /\ procs[p].pc = "add"
    /\ IF unique_ok(users, procs[p].username, procs[p].email)
       THEN /\ next_user_id <= MaxUserId
            /\ users' = users \cup {User(next_user_id, procs[p].username,
                                         procs[p].email, procs[p].hashed)}
            /\ next_user_id' = next_user_id + 1
            /\ registered' = [i \in DOMAIN registered \cup {next_user_id} |->
                                IF i = next_user_id THEN procs[p].password
                                ELSE registered[i]]
            /\ procs' = [procs EXCEPT ![p] =
                            [Idle EXCEPT !.pc = "refresh", !.id = next_user_id]]
            /\ last' = Call("create_user", "refresh", "", "", 0, 0, None, "")
       ELSE /\ procs' = [procs EXCEPT ![p] = Idle]
            /\ last' = Call("create_user", "idle", "", "", 0, 0,
                            None, "IntegrityError")
            /\ UNCHANGED <<users, next_user_id, registered>>

\* create_user's db.refresh(db_user) and return: the row is read again by its
\* primary key, as it is by then, and the user is returned; a row that is gone
\* makes the refresh fail.
register_refresh(p) ==
    /\ procs[p].pc = "refresh"
    /\ procs' = [procs EXCEPT ![p] = Idle]
    /\ \E found \in first({u \in users : u.user_id = procs[p].id}) :
          IF found = None
          THEN last' = Call("create_user", "idle", "", "", 0, 0, None,
                            "InvalidRequestError")
          ELSE last' = Call("create_user", "idle", "", "", 0, 0,
                            {u.user_id : u \in found}, "")
    /\ UNCHANGED <<users, next_user_id, registered>>

\* authenticate_query that writes last_login before it checks is_active.
authenticate_query_touch_first(p, username, password) ==
    /\ procs[p].pc = "idle"
    /\ \E found \in first({u \in users : u.username = username}) :
          IF found = None \/ \A u \in found : ~verify_password(password, u.password)
          THEN /\ last' = Call("authenticate_user", "idle", username, "", password,
                               0, None, "")
               /\ UNCHANGED <<procs, users>>
          ELSE \E user \in found :
                  IF ~user.is_active
                  THEN /\ users' = (users \ {user}) \cup
                                     {[user EXCEPT !.last_login = Some(now)]}
                       /\ last' = Call("authenticate_user", "idle", username, "",
                                       password, 0, None, "")
                       /\ UNCHANGED procs
                  ELSE /\ procs' = [procs EXCEPT ![p] =
                              [Idle EXCEPT !.pc = "stamp", !.username = username,
                                           !.password = password,
                                           !.id = user.user_id,
                                           !.loaded = user.last_login]]
                       /\ last' = Call("authenticate_user", "stamp", "", "", 0, 0, None, "")
                       /\ UNCHANGED users

\* authenticate_user's query and the three checks on the user it loaded.
authenticate_query(p, username, password) ==
    /\ procs[p].pc = "idle"
    /\ \E found \in first({u \in users : u.username = username}) :
          IF found = None
          THEN /\ last' = Call("authenticate_user", "idle", username, "", password,
                               0, None, "")
               /\ UNCHANGED procs
          ELSE \E user \in found :
                  IF ~verify_password(password, user.password)
                  THEN /\ last' = Call("authenticate_user", "idle", username, "",
                                       password, 0, None, "")
                       /\ UNCHANGED procs
                  ELSE IF ~user.is_active
                  THEN /\ last' = Call("authenticate_user", "idle", username, "",
                                       password, 0, None, "")
                       /\ UNCHANGED procs
                  ELSE /\ procs' = [procs EXCEPT ![p] =
                              [Idle EXCEPT !.pc = "stamp", !.username = username,
                                           !.password = password,
                                           !.id = user.user_id,
                                           !.loaded = user.last_login]]
                       /\ last' = Call("authenticate_user", "stamp", "", "", 0, 0, None, "")
    /\ UNCHANGED users

\* authenticate_user's user.last_login = datetime.utcnow(): the clock read, with
\* the value kept in the session until the commit.
authenticate_stamp(p) ==
    /\ procs[p].pc = "stamp"
    /\ procs' = [procs EXCEPT ![p].pc = "touch", ![p].stamp = now]
    /\ last' = Call("authenticate_user", "touch", "", "", 0, 0, None, "")
    /\ UNCHANGED users

\* authenticate_user's db.commit() and return. The session flushes the net
\* change of the loaded user: UPDATE users SET last_login WHERE user_id when
\* the value assigned differs from the one the user was loaded with, and no
\* statement when the two are equal.
authenticate_commit(p) ==
    /\ procs[p].pc = "touch"
    /\ users' = IF Some(procs[p].stamp) = procs[p].loaded
                THEN users
                ELSE {IF u.user_id = procs[p].id
                      THEN [u EXCEPT !.last_login = Some(procs[p].stamp)] ELSE u :
                      u \in users}
    /\ procs' = [procs EXCEPT ![p] = Idle]
    /\ last' = [Call("authenticate_user", "idle", "", "", 0, 0,
                     Some(procs[p].id), "") EXCEPT !.stamp = procs[p].stamp]

\* get_user_by_username that stamps last_login on the row it returns.
get_user_by_username_touching(username) ==
    \E found \in first({u \in users : u.username = username}) :
       /\ last' = Call("get_user_by_username", "idle", username, "", 0, 0,
                       {u.user_id : u \in found}, "")
       /\ users' = (users \ found) \cup
                     {[u EXCEPT !.last_login = Some(now)] : u \in found}

get_user_by_username(username) ==
    \E found \in first({u \in users : u.username = username}) :
       /\ last' = Call("get_user_by_username", "idle", username, "", 0, 0,
                       {u.user_id : u \in found}, "")
       /\ UNCHANGED users

get_user_by_id(user_id) ==
    \E found \in first({u \in users : u.user_id = user_id}) :
       /\ last' = Call("get_user_by_id", "idle", "", "", 0, user_id,
                       {u.user_id : u \in found}, "")
       /\ UNCHANGED users

\* ------------------------------------------------- refresh_tokens table
\* A new row: revoked takes the column default and revoked_reason is NULL. The
\* opaque token string is unique per row and stands as the row's number.
RefreshToken(token_id, user_id, issued_at, expires_at) ==
    [token_id |-> token_id, user_id |-> user_id, token |-> token_id,
     issued_at |-> issued_at, expires_at |-> expires_at,
     revoked |-> FALSE, revoked_reason |-> None]

\* ForeignKey("users.user_id"), nullable=False: the owner must be a users row.
fk_user_ok(rows, user_id) == \E u \in rows : u.user_id = user_id

\* cascade_delete_orphan with the cascade left off the relationship.
cascade_none(user_id, rows) == rows

\* relationship(..., cascade="all, delete-orphan"): deleting a user deletes
\* the tokens it owns.
cascade_delete_orphan(user_id, rows) == {t \in rows : t.user_id # user_id}

\* ---------------------------------------------------- refresh-token ledger
issue(user_id, ttl) ==
    IF ~fk_user_ok(users, user_id)
    THEN /\ last' = Call("issue", "idle", "", "", 0, user_id, None, "IntegrityError")
         /\ UNCHANGED <<tokens, next_token_id, issued_version>>
    ELSE /\ next_token_id <= MaxTokens
         /\ tokens' = tokens \cup
                {RefreshToken(next_token_id, user_id, now, now + ttl)}
         /\ issued_version' =
                [i \in DOMAIN issued_version \cup {next_token_id} |->
                    IF i = next_token_id
                    THEN (CHOOSE u \in users : u.user_id = user_id).token_version
                    ELSE issued_version[i]]
         /\ next_token_id' = next_token_id + 1
         /\ last' = Call("issue", "idle", "", "", 0, next_token_id, Some(user_id), "")

\* validate_failure that never compares the versions.
validate_failure_no_version(token) ==
    LET rows == {t \in tokens : t.token = token}
    IN  IF rows = {} THEN "NotFound"
        ELSE LET t == CHOOSE r \in rows : TRUE
             IN  IF t.revoked THEN "Revoked"
                 ELSE IF now >= t.expires_at THEN "Expired"
                 ELSE ""

\* The failure validate reports for a token string, "" when it accepts it.
validate_failure(token) ==
    LET rows == {t \in tokens : t.token = token}
    IN  IF rows = {} THEN "NotFound"
        ELSE LET t == CHOOSE r \in rows : TRUE
             IN  IF t.revoked THEN "Revoked"
                 ELSE IF now >= t.expires_at THEN "Expired"
                 ELSE IF ~\E u \in users : /\ u.user_id = t.user_id
                                           /\ u.token_version = issued_version[t.token_id]
                      THEN "StaleVersion"
                 ELSE ""

validate(token) ==
    /\ last' = Call("validate", "idle", "", "", 0, token,
                    IF validate_failure(token) = ""
                    THEN {t.user_id : t \in {r \in tokens : r.token = token}}
                    ELSE None,
                    validate_failure(token))
    /\ UNCHANGED <<users, tokens, issued_version>>

revoke(token, reason) ==
    /\ tokens' = {IF t.token = token /\ ~t.revoked
                  THEN [t EXCEPT !.revoked = TRUE, !.revoked_reason = Some(reason)]
                  ELSE t : t \in tokens}
    /\ last' = Call("revoke", "idle", "", "", 0, token, None, "")
    /\ UNCHANGED <<users, issued_version>>

\* revoke_all_for_user that flags each of the user's rows instead.
revoke_all_for_user_rewriting(user_id) ==
    /\ \E u \in users : u.user_id = user_id /\ u.token_version < MaxVersion
    /\ tokens' = {IF t.user_id = user_id THEN [t EXCEPT !.revoked = TRUE] ELSE t :
                  t \in tokens}
    /\ last' = Call("revoke_all_for_user", "idle", "", "", 0, user_id, None, "")
    /\ UNCHANGED <<users, issued_version>>

revoke_all_for_user(user_id) ==
    /\ \E u \in users :
          /\ u.user_id = user_id
          /\ u.token_version < MaxVersion
          /\ users' = (users \ {u}) \cup
                        {[u EXCEPT !.token_version = u.token_version + 1]}
    /\ last' = Call("revoke_all_for_user", "idle", "", "", 0, user_id, None, "")
    /\ UNCHANGED <<tokens, issued_version>>

\* Session.delete(user) followed by commit, with the declared cascade.
delete_user(user_id) ==
    /\ \E u \in users : u.user_id = user_id /\ users' = users \ {u}
    /\ tokens' = cascade_delete_orphan(user_id, tokens)
    /\ issued_version' = [i \in {t.token_id : t \in tokens'} |-> issued_version[i]]
    /\ last' = Call("delete_user", "idle", "", "", 0, user_id, None, "")

\* ------------------------------------------------------------ environment
\* The clock advances.
tick(max) ==
    /\ now < max
    /\ now' = now + 1
    /\ last' = Call("tick", "idle", "", "", 0, 0, None, "")
    /\ UNCHANGED <<users, next_user_id, tokens, next_token_id, issued_version,
                   registered, procs>>

\* An account is disabled: users.is_active is written outside AuthService.
deactivate(user_id) ==
    /\ \E u \in users :
          /\ u.user_id = user_id
          /\ u.is_active
          /\ users' = (users \ {u}) \cup {[u EXCEPT !.is_active = FALSE]}
    /\ last' = Call("deactivate", "idle", "", "", 0, user_id, None, "")
    /\ UNCHANGED <<next_user_id, tokens, next_token_id, issued_version, now, registered, procs>>

\* ---------------------------------------------------------- specification
Tick == tick(MaxTime)

TickLedger == tick(MaxLedgerTime)

Init ==
    /\ users = {}
    /\ next_user_id = 1
    /\ tokens = {}
    /\ next_token_id = 1
    /\ issued_version = [i \in {} |-> 0]
    /\ now = 0
    /\ registered = [i \in {} |-> 0]
    /\ last = Call("init", "idle", "", "", 0, 0, None, "")
    /\ procs = [p \in Procs |-> Idle]

RegisterQuery ==
    \E p \in Procs, r \in Registrations, salt \in Salts :
        /\ register_query(p, r[1], r[2], r[3], salt)
        /\ UNCHANGED <<tokens, next_token_id, issued_version, now>>

RegisterCommit ==
    \E p \in Procs :
        /\ register_commit(p)
        /\ UNCHANGED <<tokens, next_token_id, issued_version, now>>

RegisterRefresh ==
    \E p \in Procs :
        /\ register_refresh(p)
        /\ UNCHANGED <<tokens, next_token_id, issued_version, now>>

AuthenticateQuery ==
    \E p \in Procs, username \in Usernames, password \in Passwords :
        /\ authenticate_query(p, username, password)
        /\ UNCHANGED <<next_user_id, tokens, next_token_id, issued_version, now,
                       registered>>

AuthenticateStamp ==
    \E p \in Procs :
        /\ authenticate_stamp(p)
        /\ UNCHANGED <<next_user_id, tokens, next_token_id, issued_version, now,
                       registered>>

AuthenticateCommit ==
    \E p \in Procs :
        /\ authenticate_commit(p)
        /\ UNCHANGED <<next_user_id, tokens, next_token_id, issued_version, now,
                       registered>>

LookupByUsername ==
    \E username \in Usernames :
        /\ get_user_by_username(username)
        /\ UNCHANGED <<next_user_id, tokens, next_token_id, issued_version, now,
                       registered, procs>>

LookupById ==
    \E user_id \in UserIds :
        /\ get_user_by_id(user_id)
        /\ UNCHANGED <<next_user_id, tokens, next_token_id, issued_version, now,
                       registered, procs>>

Deactivate == \E user_id \in UserIds : deactivate(user_id)

Next ==
    \/ RegisterQuery
    \/ RegisterCommit
    \/ RegisterRefresh
    \/ AuthenticateQuery
    \/ AuthenticateStamp
    \/ AuthenticateCommit
    \/ Deactivate
    \/ Tick

Spec == Init /\ [][Next]_vars

NextLookup ==
    \/ RegisterQuery
    \/ RegisterCommit
    \/ RegisterRefresh
    \/ AuthenticateQuery
    \/ AuthenticateStamp
    \/ AuthenticateCommit
    \/ LookupByUsername
    \/ LookupById
    \/ Tick

SpecLookup == Init /\ [][NextLookup]_vars

Issue ==
    \E user_id \in UserIds, ttl \in TTLs :
        /\ issue(user_id, ttl)
        /\ UNCHANGED <<users, next_user_id, now, registered, procs>>

Validate ==
    \E token \in TokenIds :
        /\ validate(token)
        /\ UNCHANGED <<next_user_id, next_token_id, now, registered, procs>>

Revoke ==
    \E token \in TokenIds, reason \in Reasons :
        /\ revoke(token, reason)
        /\ UNCHANGED <<next_user_id, next_token_id, now, registered, procs>>

RevokeAll ==
    \E user_id \in UserIds :
        /\ revoke_all_for_user(user_id)
        /\ UNCHANGED <<next_user_id, next_token_id, now, registered, procs>>

DeleteUser ==
    \E user_id \in UserIds :
        /\ delete_user(user_id)
        /\ UNCHANGED <<next_user_id, next_token_id, now, registered, procs>>

\* The store after two registrations, before any token is issued.
InitLedger ==
    /\ users = {User(1, "alice", "A@x.com", get_password_hash(1, 1)),
                User(2, "Alice", "a@x.com", get_password_hash(2, 1))}
    /\ next_user_id = 3
    /\ tokens = {}
    /\ next_token_id = 1
    /\ issued_version = [i \in {} |-> 0]
    /\ now = 0
    /\ registered = [i \in {1, 2} |-> i]
    /\ last = Call("init", "idle", "", "", 0, 0, None, "")
    /\ procs = [p \in Procs |-> Idle]

NextLedger ==
    \/ Issue
    \/ Validate
    \/ Revoke
    \/ RevokeAll
    \/ DeleteUser
    \/ TickLedger

SpecLedger == InitLedger /\ [][NextLedger]_vars

\* ================================================================ claims

Matching(username) == {u \in users : u.username = username}

Taken(username, email) ==
    \E u \in users : u.username = username \/ u.email = email

\* Request p's call goes on from its query (to = "add", "stamp"), reads the
\* clock, inserts its row, or ends (from = "add", "refresh", "touch").
Passes(p, to) == procs[p].pc = "idle" /\ procs'[p].pc = to

Inserts(p) == procs[p].pc = "add" /\ procs'[p].pc = "refresh"

Stamps(p) == procs[p].pc = "stamp" /\ procs'[p].pc = "touch"

Commits(p, from) == procs[p].pc = from /\ procs'[p].pc = "idle"

\* A call of method op ends at its query, in this step.
EndsAtQuery(op) == last'.op = op /\ last'.pc = "idle" /\ procs' = procs

\* C1: a registration whose username or whose email equals (exactly) that of
\* a user in the store when create_user queries it never gets past the query:
\* it fails there with create_user's ValueError, the duplicate-credential
\* error, and the users table stays as it was.
C1_DuplicateRejected ==
    [][/\ \A p \in Procs :
             Passes(p, "add") => ~Taken(procs'[p].username, procs'[p].email)
       /\ EndsAtQuery("create_user")
             => /\ last'.raised = "ValueError"
                /\ last'.ret = None
                /\ Taken(last'.username, last'.email)
                /\ users' = users
                /\ next_user_id' = next_user_id]_vars

\* C1's case: the email is taken by a user of another username.
C1_Witness ==
    /\ last.op = "create_user"
    /\ last.raised = "ValueError"
    /\ \E u \in users : u.email = last.email /\ u.username # last.username

\* C2 as stated: each cause of failure is reported as a failure of its own.
C2_DistinctFailures ==
    [][(EndsAtQuery("authenticate_user") /\ last'.ret = None)
       => LET found == Matching(last'.username)
          IN  /\ found = {} => last'.raised = "NotFound"
              /\ (\E u \in found : ~verify_password(last'.password, u.password))
                    => last'.raised = "InvalidCredential"
              /\ (\E u \in found : /\ verify_password(last'.password, u.password)
                                   /\ ~u.is_active)
                    => last'.raised = "Inactive"]_vars

\* C2, what the code does instead: authenticate fails in three cases (no user
\* of that username; a user whose stored hash the password does not verify
\* against, active or not; a user whose password verifies and who is inactive
\* when the call loads it), and in each it returns None and raises nothing,
\* the same outcome for every cause; only a call in none of the three cases
\* goes on to return the user.
C2_FailuresAreNone ==
    [][/\ last'.op = "authenticate_user" => last'.raised = ""
       /\ (EndsAtQuery("authenticate_user"))
             => /\ last'.ret = None
                /\ LET found == Matching(last'.username)
                   IN  \/ found = {}
                       \/ \E u \in found :
                             ~verify_password(last'.password, u.password)
                       \/ \E u \in found :
                             /\ verify_password(last'.password, u.password)
                             /\ ~u.is_active
       /\ \A p \in Procs :
             Passes(p, "stamp")
             => \E u \in Matching(procs'[p].username) :
                   /\ verify_password(procs'[p].password, u.password)
                   /\ u.is_active
                   /\ procs'[p].id = u.user_id
       /\ \A p \in Procs :
             Commits(p, "touch") => last'.ret = Some(procs[p].id)]_vars

\* C2's case: the password verifies and the user is inactive.
C2_Witness ==
    /\ last.op = "authenticate_user"
    /\ last.pc = "idle"
    /\ last.ret = None
    /\ \E u \in Matching(last.username) :
          verify_password(last.password, u.password) /\ ~u.is_active

\* C3 as stated: authenticate with the username and the password a user
\* registered with does not fail while the user is active, whatever calls came
\* in between, and once the call has returned the user, the user's last_login
\* is the time of that call: a time from the call's clock reading to its
\* return.
C3_RegisteredPairAuthenticates ==
    [][/\ \A u \in users :
             ~(/\ EndsAtQuery("authenticate_user")
               /\ last'.ret = None
               /\ last'.username = u.username
               /\ last'.password = registered[u.user_id]
               /\ u.is_active)
       /\ \A p \in Procs :
             Commits(p, "touch")
             => /\ last'.ret = Some(procs[p].id)
                /\ \A u \in users' :
                      u.user_id = procs[p].id
                         => \E t \in procs[p].stamp .. now :
                               u.last_login = Some(t)]_vars

\* C3, the part that holds: a login with the registered pair of an active user
\* passes its checks, reads the clock and returns that user at its commit; the
\* commit writes, as last_login, the time the call read, or writes nothing
\* when that time is the last_login the call loaded.
C3_RegisteredPairSucceeds ==
    [][/\ \A u \in users :
             ~(/\ EndsAtQuery("authenticate_user")
               /\ last'.ret = None
               /\ last'.username = u.username
               /\ last'.password = registered[u.user_id]
               /\ u.is_active)
       /\ \A p \in Procs :
             Passes(p, "stamp")
             => \E u \in Matching(procs'[p].username) :
                   /\ procs'[p].id = u.user_id
                   /\ procs'[p].loaded = u.last_login
       /\ \A p \in Procs :
             Stamps(p)
             => /\ procs'[p].stamp = now
                /\ procs'[p].id = procs[p].id
                /\ procs'[p].loaded = procs[p].loaded
                /\ users' = users
       /\ \A p \in Procs :
             Commits(p, "touch")
             => /\ last'.op = "authenticate_user"
                /\ last'.ret = Some(procs[p].id)
                /\ last'.stamp = procs[p].stamp
                /\ procs[p].stamp <= now
                /\ IF Some(procs[p].stamp) = procs[p].loaded
                   THEN users' = users
                   ELSE \E u \in users :
                           /\ u.user_id = procs[p].id
                           /\ [u EXCEPT !.last_login = Some(procs[p].stamp)]
                                 \in users']_vars

\* C3's case: a login has just returned a user whose last_login is a time
\* before the one this call read: the call sent no UPDATE and left an older
\* stamp, committed meanwhile by another login, in the store. The clock has
\* not reached its bound: it could have moved on before every read.
C3_Witness ==
    /\ last.op = "authenticate_user"
    /\ last.pc = "idle"
    /\ now < MaxTime
    /\ \E u \in users : /\ last.ret = Some(u.user_id)
                        /\ \E t \in 0 .. MaxTime : /\ u.last_login = Some(t)
                                                   /\ t < last.stamp

\* C4: a successful register adds exactly one row: the requested username and
\* email, is_active, token_version 0, no last_login, and as password a digest
\* that is not the plaintext and verifies against it; the rows that were there
\* are unchanged. The call adds the row at its commit and returns that user,
\* writing nothing more, after its refresh.
C4_RegisterAddsOneUser ==
    [][/\ (last'.op = "create_user" /\ last'.ret # None)
             => \E p \in Procs :
                   /\ Commits(p, "refresh")
                   /\ last'.ret = Some(procs[p].id)
                   /\ last'.raised = ""
                   /\ users' = users
                   /\ \E u \in users : u.user_id = procs[p].id
       /\ \A p \in Procs :
             (procs[p].pc = "add" /\ procs'[p].pc # "add" /\ last'.raised = "")
             => /\ Inserts(p)
                /\ \E r \in users' :
                      /\ r \notin users
                      /\ users' = users \cup {r}
                      /\ \A u \in users : u.user_id # r.user_id
                      /\ procs'[p].id = r.user_id
                      /\ r.username = procs[p].username
                      /\ r.email = procs[p].email
                      /\ r.is_active = TRUE
                      /\ r.token_version = 0
                      /\ r.last_login = None
                      /\ r.password # procs[p].password
                      /\ verify_password(procs[p].password, r.password)
                      /\ \A other \in Passwords \ {procs[p].password} :
                            ~verify_password(other, r.password)
       /\ Cardinality(users') > Cardinality(users)
             => \E p \in Procs : Inserts(p)]_vars

\* C4's case: a second user is registered beside an existing one.
C4_Witness ==
    /\ last.op = "create_user"
    /\ last.raised = ""
    /\ Cardinality(users) = 2
    /\ \E u \in users : last.ret = Some(u.user_id) /\ u.last_login = None

C5_UniqueRows ==
    \A u, v \in users :
       (u.username = v.username \/ u.email = v.email \/ u.user_id = v.user_id)
          => u = v

C5_LoserFails ==
    \A p \in Procs :
       (/\ procs[p].pc = "add" /\ procs'[p].pc # "add"
        /\ Taken(procs[p].username, procs[p].email))
       => (/\ last'.op = "create_user"
           /\ last'.raised = "IntegrityError"
           /\ last'.ret = None
           /\ users' = users)

\* C5: under every interleaving of the requests' queries and commits no two
\* users share a username or an email; a registration that reaches its commit
\* when its username or email has been taken meanwhile fails there and
\* inserts nothing, so of two registrations that passed the existence check
\* with the same credential at most one is persisted.
C5_UniqueUnderInterleaving == []C5_UniqueRows /\ [][C5_LoserFails]_vars

\* C5's case: two registrations passed the check; one was persisted and the
\* other failed at its commit.
C5_Witness ==
    /\ last.op = "create_user"
    /\ last.raised = "IntegrityError"
    /\ users # {}

Owner(t) == {u \in users : u.user_id = t.user_id}

Current(t) == \E u \in Owner(t) : u.token_version = issued_version[t.token_id]

\* C6: validate accepts a token iff it is not revoked, the time is before its
\* expires_at and its owner's token_version is the one recorded at issuance;
\* a revoked token fails with Revoked, an unrevoked one at or past expires_at
\* with Expired; and the validate call reports exactly that.
C6_ValidIff ==
    /\ \A t \in tokens :
          /\ validate_failure(t.token) = ""
                <=> (~t.revoked /\ now < t.expires_at /\ Current(t))
          /\ t.revoked => validate_failure(t.token) = "Revoked"
          /\ (~t.revoked /\ now >= t.expires_at)
                => validate_failure(t.token) = "Expired"
    /\ last.op = "validate"
          => /\ last.raised = validate_failure(last.id)
             /\ last.ret # None <=> last.raised = ""
             /\ \A t \in tokens : t.token = last.id /\ last.raised = ""
                    => last.ret = Some(t.user_id)

\* C6's case: a validate call refused an unrevoked token as Expired while
\* another token is accepted.
C6_Witness ==
    /\ last.op = "validate"
    /\ last.raised = "Expired"
    /\ \E t \in tokens : t.token = last.id /\ ~t.revoked /\ Current(t)
    /\ \E t \in tokens : validate_failure(t.token) = ""

\* C7: revoke_all_for_user(u) adds one to u's token_version and writes nothing
\* else: no token row, no other user. After it every token of u that is
\* neither revoked nor expired fails validate with StaleVersion, the tokens of
\* other users validate as before, and a token issued to u from then on is
\* accepted, until it is revoked, expires or u's tokens are revoked again.
C7_RevokeAllStep ==
    last'.op = "revoke_all_for_user"
    => /\ tokens' = tokens
       /\ issued_version' = issued_version
       /\ \A u \in users :
             IF u.user_id = last'.id
             THEN [u EXCEPT !.token_version = u.token_version + 1] \in users'
             ELSE u \in users'
       /\ Cardinality(users') = Cardinality(users)
       /\ \A t \in tokens :
             /\ (t.user_id = last'.id /\ ~t.revoked /\ now < t.expires_at)
                   => validate_failure(t.token)' = "StaleVersion"
             /\ t.user_id # last'.id
                   => validate_failure(t.token)' = validate_failure(t.token)

C7_IssueStep ==
    (last'.op = "issue" /\ last'.raised = "")
    => /\ \A k \in TokenIds : last'.id = k => validate_failure(k)' = ""
       /\ \A t \in tokens : t \in tokens'

C7_IssuedSince ==
    \A t \in tokens :
       (Current(t) /\ ~t.revoked /\ now < t.expires_at)
          => validate_failure(t.token) = ""

\* C7: revoke_all_for_user only increments the user's token_version, which
\* makes the user's earlier live tokens stale and leaves later ones accepted.
C7_MassInvalidation ==
    [][C7_RevokeAllStep /\ C7_IssueStep]_vars /\ []C7_IssuedSince

\* C7's case: validate refuses, as stale, a token issued before the call while
\* a token issued to the same user after it is accepted.
C7_Witness ==
    /\ last.op = "validate"
    /\ last.raised = "StaleVersion"
    /\ \E t1, t2 \in tokens :
          /\ t1.token = last.id
          /\ t2.user_id = t1.user_id
          /\ issued_version[t1.token_id] < issued_version[t2.token_id]
          /\ validate_failure(t2.token) = ""

\* C8: every refresh_tokens row names, as user_id, a user that is in the users
\* table, also after a user was removed.
C8_TokensHaveOwners ==
    \A t \in tokens : t.user_id \in UserIds /\ \E u \in users : u.user_id = t.user_id

\* C8's case: a user that owned a token was removed while another user keeps
\* its token.
C8_Witness ==
    /\ last.op = "delete_user"
    /\ tokens # {}
    /\ Cardinality(tokens) < next_token_id - 1

\* C9: the two lookups return the user whose username (user_id) is the
\* argument, None when there is none, raise nothing and write nothing.
C9_LookupsArePure ==
    [][/\ last'.op = "get_user_by_username"
          => /\ last'.ret = {u.user_id : u \in Matching(last'.username)}
             /\ last'.raised = ""
             /\ users' = users
             /\ procs' = procs
       /\ last'.op = "get_user_by_id"
          => /\ last'.ret = {u.user_id : u \in {v \in users : v.user_id = last'.id}}
             /\ last'.raised = ""
             /\ users' = users
             /\ procs' = procs]_vars

\* C9's case: a lookup by username hit a user who has logged in, while a
\* lookup of the other username would miss.
C9_Witness ==
    /\ last.op = "get_user_by_username"
    /\ \E u \in users : last.ret = Some(u.user_id) /\ u.last_login # None
    /\ \E n \in Usernames : Matching(n) = {}

\* C10: a failed authenticate writes nothing; a user's last_login changes only
\* at the commit of a successful authenticate of that user.
C10_FailedAuthWritesNothing ==
    [][/\ (last'.op = "authenticate_user" /\ last'.pc = "idle" /\ last'.ret = None)
          => /\ users' = users
             /\ next_user_id' = next_user_id
             /\ tokens' = tokens
       /\ \A u \in users : \A v \in users' :
             (u.user_id = v.user_id /\ u.last_login # v.last_login)
                => /\ last'.op = "authenticate_user"
                   /\ last'.ret = Some(u.user_id)
                   /\ \E p \in Procs :
                         /\ Commits(p, "touch")
                         /\ v = [u EXCEPT !.last_login = Some(procs[p].stamp)]]_vars

\* C10's case: a wrong password for a user who logged in before.
C10_Witness ==
    /\ last.op = "authenticate_user"
    /\ last.pc = "idle"
    /\ last.ret = None
    /\ \E u \in Matching(last.username) :
          ~verify_password(last.password, u.password) /\ u.last_login # None

====
